---- MODULE Spec2Model ----
(***************************************************************************)
(* A model of src/core.py: the N64Emulator machine (ROM loader, step loop  *)
(* with its per-address handler cache, save states, run control) and the   *)
(* RealityCoprocessor (vector registers, scratch memory, framebuffer).     *)
(*                                                                         *)
(* Representation choices:                                                 *)
(*  - a Python int that may need more than 31 bits (a register value, an   *)
(*    instruction word, an immediate) is a pair <<hi, lo>> standing for    *)
(*    hi * 65536 + lo, with 0 <= lo < 65536 and hi >= 0;                   *)
(*  - a bytes object is [len, bytes], bytes a function from the offsets    *)
(*    that hold a non-zero byte to that byte (every other offset below len *)
(*    holds 0);                                                            *)
(*  - rdram and rsp_memory are functions from the indices that hold a      *)
(*    non-zero value; the framebuffer is observed at the pixels of Pixels; *)
(*  - Python lists that are shared by reference and mutated in place live  *)
(*    in heaps (hregs, hfb, hram, hrsp): a field or a snapshot entry holds *)
(*    an object id, list[:] allocates a new object;                        *)
(*  - one iteration of emulation_loop is two steps: WorkerCheck (the while *)
(*    test and frame_count += 1, up to root.update()) and WorkerStep (the  *)
(*    try block and the sleep);                                            *)
(*  - cycle_count, rsp_active, rdp_active, rsp_status, emulation_speed,    *)
(*    plugins, controller_config and the Tk widgets are left out: nothing  *)
(*    in the machine reads them;                                           *)
(*  - load_64dd_disk is left out: it replaces the image, the title, pc and *)
(*    vector registers 0..2 as load_rom does, without any validation.      *)
(*                                                                         *)
(* Three specifications: Spec is the whole machine under every user        *)
(* operation; UnitSpec calls the loader and the coprocessor alone on more  *)
(* inputs; ReloadSpec is a run during which images are replaced.           *)
(***************************************************************************)
EXTENDS Integers, Sequences, FiniteSets, TLC

(*************************** bounds of the model ***************************)
MaxSlot == 2
MaxWorkers == 2
MaxFrame == 3
MaxRspSteps == 2
MaxJal == 1
MaxCheats == 1
MaxUserOps == 4

(**************************** program constants ****************************)
EntryPoint == 4096
RdramSize == 4194304
RspMemSize == 4096
MinRomSize == 64
NumRegs == 32
TitleStart == 32
TitleEnd == 52
InputMod == 65535
StackPointerHi == 32819
StackPointerLo == 46080
SeedRed == 255
SeedGreen == 160
SeedBlue == 0
FbWidth == 320
FbHeight == 240
MinSlotKey == 1
MaxSlotKey == 10

\* 2^16, the weight of the hi half of a pair; 2^28, the span kept by pc & 0xF0000000
Half == 256 * 256
Region == 4096 * Half

(************************** 32-bit and wider values ************************)
W(hi, lo) == <<hi, lo>>
Zero == W(0, 0)
ToW(n) == W(n \div Half, n % Half)

\* a faulty variant: the sum is not reduced to 32 bits
Add32_NoWrap(a, b) ==
  LET lo == a[2] + b[2]
  IN  W(a[1] + b[1] + (lo \div Half), lo % Half)

\* (a + b) & 0xFFFFFFFF
Add32(a, b) ==
  LET lo == a[2] + b[2]
      hi == a[1] + b[1] + (lo \div Half)
  IN  W(hi % Half, lo % Half)

\* (a + b) & 0xFFFF
Add16(a, b) == W(0, (a[2] + b[2]) % Half)

\* a faulty variant: the product of the low bytes only
Mul16_LowBytes(a, b) == W(0, ((a[2] % 256) * (b[2] % 256)) % Half)

\* (a * b) & 0xFFFF, by partial products that stay below 2^31
Mul16(a, b) ==
  LET p0 == a[2] * (b[2] % 256)
      p1 == (a[2] * (b[2] \div 256)) % 256
  IN  W(0, (p0 + p1 * 256) % Half)

\* v % m for a modulus m that divides 2^32 and is at least 2^16
ModW(v, m) == ((v[1] % (m \div Half)) * Half) + v[2]

(********************************* bytes ***********************************)
ByteAt(d, i) == IF i \in DOMAIN d.bytes THEN d.bytes[i] ELSE 0

Sparse(f) == [a \in {x \in DOMAIN f : f[x] # 0} |-> f[a]]

EmptyBytes == [len |-> 0, bytes |-> <<>>]

\* the four bytes of the big-endian word hi:lo at offset a
WordBytes(a, hi, lo) ==
  (a :> (hi \div 256)) @@ ((a + 1) :> (hi % 256)) @@
  ((a + 2) :> (lo \div 256)) @@ ((a + 3) :> (lo % 256))

\* struct.unpack('>I', d[pc:pc+4])[0]; the caller checks pc + 4 <= d.len
WordAt(d, a) ==
  W(ByteAt(d, a) * 256 + ByteAt(d, a + 1), ByteAt(d, a + 2) * 256 + ByteAt(d, a + 3))

(************************** instruction fields *****************************)
OpOf(w) == w[1] \div 1024
RsOf(w) == (w[1] \div 32) % 32
RtOf(w) == w[1] % 32
RdOf(w) == w[2] \div 2048
ImmOf(w) == w[2]
\* a faulty variant: the 26-bit field is not shifted left by 2
TargetOf_Unshifted(w) == (w[1] % 1024) * Half + w[2]

\* (opcode & 0x3FFFFFF) << 2
TargetOf(w) == ((w[1] % 1024) * Half + w[2]) * 4

OP_ADD == 0
OP_J == 2
OP_JAL == 3
OP_LUI == 15
OP_LW == 35
OP_SW == 43
OP_VADD == 50
OP_VMUL == 51
OP_VMOV == 52

(***************************** the ROM loader ******************************)
Magic(d) == <<ByteAt(d, 0), ByteAt(d, 1), ByteAt(d, 2), ByteAt(d, 3)>>
MagicZ64 == <<128, 55, 18, 64>>
MagicV64 == <<55, 128, 64, 18>>
MagicN64 == <<64, 18, 55, 128>>

\* bytes([d[i+1] for i in range(0, len, 2)] + [d[i] for i in range(0, len, 2)]),
\* defined when len is even (d[i+1] is out of range for the last i otherwise)
Interleave(d) ==
  LET half == d.len \div 2
      dest(a) == IF a % 2 = 1 THEN (a - 1) \div 2 ELSE half + (a \div 2)
      src(k) == IF k < half THEN 2 * k + 1 ELSE 2 * (k - half)
  IN  [len |-> d.len,
       bytes |-> [k \in {dest(a) : a \in DOMAIN d.bytes} |-> d.bytes[src(k)]]]

\* d[::-1]
Reverse(d) ==
  [len |-> d.len,
   bytes |-> [k \in {d.len - 1 - a : a \in DOMAIN d.bytes} |-> d.bytes[d.len - 1 - k]]]

\* the outcome of lines 244-258 on the bytes read from the file
Normalize(raw) ==
  IF raw.len < MinRomSize THEN [ok |-> FALSE, err |-> "ROM too small", data |-> raw]
  ELSE IF Magic(raw) = MagicZ64 THEN [ok |-> TRUE, err |-> "", data |-> raw]
  ELSE IF Magic(raw) = MagicV64 THEN
         IF raw.len % 2 = 1
           THEN [ok |-> FALSE, err |-> "index out of range", data |-> raw]
           ELSE [ok |-> TRUE, err |-> "", data |-> Interleave(raw)]
  ELSE IF Magic(raw) = MagicN64 THEN [ok |-> TRUE, err |-> "", data |-> Reverse(raw)]
  ELSE [ok |-> FALSE, err |-> "Invalid N64 ROM header", data |-> raw]

\* str.strip() removes these code points at both ends
Whitespace == {9, 10, 11, 12, 13, 28, 29, 30, 31, 32}

\* d[0x20:0x34].decode('ascii', errors='ignore').strip() or basename(path)
TitleOf(d, name) ==
  LET hi == IF d.len < TitleEnd THEN d.len ELSE TitleEnd
      raw == [i \in 1..(IF hi > TitleStart THEN hi - TitleStart ELSE 0) |->
                ByteAt(d, TitleStart + i - 1)]
      IsAscii(b) == b < 128
      txt == SelectSeq(raw, IsAscii)
      keep == {i \in 1..Len(txt) : txt[i] \notin Whitespace}
      first == CHOOSE i \in keep : \A j \in keep : i <= j
      last == CHOOSE i \in keep : \A j \in keep : j <= i
  IN  IF keep = {} THEN name ELSE SubSeq(txt, first, last)

Lower(c) == IF c >= 65 /\ c <= 90 THEN c + 32 ELSE c
MarioChars == <<109, 97, 114, 105, 111>>

\* "mario" in title.lower()
IsMario(title) ==
  \E i \in 1..Len(title) :
     /\ i + 4 <= Len(title)
     /\ \A k \in 1..5 : Lower(title[i + k - 1]) = MarioChars[k]

\* The ROM files the user can pick.  Code starts at EntryPoint.
Z64Header == (0 :> 128) @@ (1 :> 55) @@ (2 :> 18) @@ (3 :> 64)
MarioTitle == (32 :> 77) @@ (33 :> 65) @@ (34 :> 82) @@ (35 :> 73) @@ (36 :> 79)

\* "a": LUI r1,1 ; SW r29,4 ; (2 bytes left: a short fetch)
FileA ==
  [name |-> <<97>>,
   data |-> [len |-> EntryPoint + 10,
             bytes |-> Sparse(Z64Header @@ MarioTitle
                              @@ WordBytes(EntryPoint, 15 * 1024 + 1, 1)
                              @@ WordBytes(EntryPoint + 4, 43 * 1024 + 29, 4)
                              @@ ((EntryPoint + 8) :> 1))]]

\* "b": JAL 0x1008 ; ADD r3 = r29 + r29 ; LW r4, 8 ; J 0x1000
FileB ==
  [name |-> <<98>>,
   data |-> [len |-> EntryPoint + 16,
             bytes |-> Sparse(Z64Header
                              @@ WordBytes(EntryPoint, 3 * 1024, 1026)
                              @@ WordBytes(EntryPoint + 4, 29 * 32 + 29, 3 * 2048)
                              @@ WordBytes(EntryPoint + 8, 35 * 1024 + 4, 8)
                              @@ WordBytes(EntryPoint + 12, 2 * 1024, 1024))]]

\* "j": J 0x1008 ; 8 zero bytes
FileJ ==
  [name |-> <<106>>,
   data |-> [len |-> EntryPoint + 12,
             bytes |-> Sparse(Z64Header @@ WordBytes(EntryPoint, 2 * 1024, 1026))]]

\* "c": SW r29,4 ; ADD r0 = r0 + r0 ; VADD v3 = v0 + v1
FileC ==
  [name |-> <<99>>,
   data |-> [len |-> EntryPoint + 12,
             bytes |-> Sparse(Z64Header
                              @@ WordBytes(EntryPoint, 43 * 1024 + 29, 4)
                              @@ WordBytes(EntryPoint + 8, 50 * 1024 + 1, 3 * 2048))]]

\* "s": shorter than a header
FileSmall ==
  [name |-> <<115>>, data |-> [len |-> 10, bytes |-> Z64Header]]

\* "x": a header-sized file with no known magic
FileBad ==
  [name |-> <<120>>, data |-> [len |-> MinRomSize, bytes |-> (0 :> 1)]]

Files == {FileA, FileB, FileSmall, FileBad}

NoPath == <<>>
UnknownTitle == <<85, 110, 107, 110, 111, 119, 110>>

(******************************** the state ********************************)
VARIABLES
  is_running,       \* N64Emulator.is_running
  rom_path,         \* NoPath for None, else the file's name
  rom_title,
  rom_data,
  frame_count,
  pc,
  save_states,      \* slot -> snapshot; list-valued entries hold object ids
  cheat_codes,      \* the keys of the dict, in insertion order
  cpu_registers,    \* id of the list object in hregs
  rdram,            \* never mutated in place, so kept by value
  netplay_enabled,
  netplay_socket,   \* TRUE for an open socket, FALSE for None
  vu_registers,     \* rcp.vu_registers; referenced by the rcp alone, kept by value
  framebuffer,      \* id of the framebuffer object in hfb
  rsp_memory,       \* id of the list object in hrsp
  rsp_pc,
  use_test_pattern,
  hregs, hfb, hrsp, \* the heaps: object id -> list value (<<>> when unused)
  workers,          \* the live emulation_loop threads, oldest first
  ops,              \* history: the number of user operations so far
  shadow,           \* history: slot -> the machine's values when it was last saved
  ev                \* history: the operation that produced this state

machine == <<is_running, rom_path, rom_title, rom_data, frame_count, pc, save_states,
             cheat_codes, cpu_registers, rdram, netplay_enabled, netplay_socket,
             vu_registers, framebuffer, rsp_memory, rsp_pc, use_test_pattern,
             hregs, hfb, hrsp>>
vars == <<machine, workers, ops, shadow, ev>>

Slots == 1..MaxSlot
ObjIds == 0..MaxSlot
LiveId == 0

\* the framebuffer is observed at framebuffer[y][x] for <<y, x>> in Pixels
Pixels == {<<0, 0>>, <<FbHeight - 1, FbWidth - 1>>}

ZeroRegs == [i \in 1..NumRegs |-> Zero]
ZeroFb == [p \in Pixels |-> 0]
ZeroMem == <<>>

\* ids held by the snapshots of the slots other than those in `but`
SnapRefs(field, but) == {save_states[s][field] : s \in (DOMAIN save_states) \ but}

\* the id of a newly allocated object: the owner's own id when nobody else
\* holds it, else the least id nobody holds
Fresh(owner, used) ==
  IF owner \notin used THEN owner
  ELSE CHOOSE i \in ObjIds \ used : \A j \in ObjIds \ used : i <= j

\* heap h with object id set to val; objects nobody in `held` refers to are dropped
Put(h, id, val, held) ==
  [i \in ObjIds |-> IF i = id THEN val ELSE IF i \in held THEN h[i] ELSE <<>>]

\* list read and write with Python's 0-based indices
Get(l, i) == l[i + 1]
Set(l, i, v) == [l EXCEPT ![i + 1] = v]
\* a faulty variant: a word never written reads as 1
RamGet_One(m, i) == IF i \in DOMAIN m THEN m[i] ELSE W(0, 1)

\* rdram[i]: a word never written is 0
RamGet(m, i) == IF i \in DOMAIN m THEN m[i] ELSE Zero
MemSet(m, i, v) ==
  IF v = 0 THEN [a \in (DOMAIN m) \ {i} |-> m[a]]
  ELSE [a \in (DOMAIN m) \cup {i} |-> IF a = i THEN v ELSE m[a]]

\* the values a snapshot holds, lists dereferenced
SnapValue(s) ==
  [frame_count |-> save_states[s].frame_count,
   pc |-> save_states[s].pc,
   cpu_registers |-> hregs[save_states[s].cpu_registers],
   rom_title |-> save_states[s].rom_title,
   framebuffer |-> hfb[save_states[s].framebuffer],
   rdram |-> save_states[s].rdram,
   rsp_memory |-> hrsp[save_states[s].rsp_memory]]

\* the machine's fields by value
View ==
  [is_running |-> is_running, rom_path |-> rom_path, rom_title |-> rom_title,
   rom_data |-> rom_data, frame_count |-> frame_count, pc |-> pc,
   cheat_codes |-> cheat_codes, cpu_registers |-> hregs[cpu_registers],
   rdram |-> rdram, netplay_enabled |-> netplay_enabled,
   netplay_socket |-> netplay_socket, vu_registers |-> vu_registers,
   framebuffer |-> hfb[framebuffer], rsp_memory |-> hrsp[rsp_memory],
   rsp_pc |-> rsp_pc, use_test_pattern |-> use_test_pattern,
   threads |-> Len(workers)]

Fields == {"is_running", "rom_path", "rom_title", "rom_data", "frame_count", "pc",
           "cheat_codes", "cpu_registers", "rdram", "netplay_enabled",
           "netplay_socket", "vu_registers", "framebuffer", "rsp_memory", "rsp_pc",
           "use_test_pattern", "threads"}

\* history: what an operation changed
Changed == {f \in Fields : View'[f] # View[f]}
SnapsChanged ==
  {s \in Slots :
     \/ (s \in DOMAIN save_states) # (s \in DOMAIN save_states')
     \/ s \in DOMAIN save_states /\ s \in DOMAIN save_states' /\ SnapValue(s)' # SnapValue(s)}

NoStep == [err |-> "none"]
\* out is the outcome the operation reports (a dialog's title, or "ok");
\* stopped tells that stop was the last thing the user did
Event(op, arg, out, st) ==
  [op |-> op, arg |-> arg, out |-> out, changed |-> Changed, snaps |-> SnapsChanged,
   st |-> st,
   stopped |-> IF op = "stop" THEN TRUE
               ELSE IF op \in {"step", "check"} THEN ev.stopped ELSE FALSE]

NoThread == [loc |-> "top", cache |-> <<>>, rs |-> 0, rt |-> 0, rd |-> 0,
             imm |-> Zero, target |-> 0, late |-> 0]

\* N64Emulator.__init__ and RealityCoprocessor.__init__
Init ==
  /\ is_running = FALSE
  /\ rom_path = NoPath
  /\ rom_title = UnknownTitle
  /\ rom_data = EmptyBytes
  /\ frame_count = 0
  /\ pc = EntryPoint
  /\ save_states = <<>>
  /\ cheat_codes = <<>>
  /\ cpu_registers = LiveId
  /\ rdram = ZeroMem
  /\ netplay_enabled = FALSE
  /\ netplay_socket = FALSE
  /\ vu_registers = ZeroRegs
  /\ framebuffer = LiveId
  /\ rsp_memory = LiveId
  /\ rsp_pc = 0
  /\ use_test_pattern = TRUE
  /\ hregs = [i \in ObjIds |-> IF i = LiveId THEN ZeroRegs ELSE <<>>]
  /\ hfb = [i \in ObjIds |-> IF i = LiveId THEN ZeroFb ELSE <<>>]
  /\ hrsp = [i \in ObjIds |-> <<>>]
  /\ workers = <<>>
  /\ ops = 0
  /\ shadow = <<>>
  /\ ev = [op |-> "init", arg |-> 0, out |-> "ok", changed |-> {}, snaps |-> {},
           st |-> NoStep, stopped |-> FALSE]

(*************************** inputs of the model ***************************)
\* random.randint(1, 255)
SeedValues == {1}
\* hash(action) % 0xFFFF
InputValues == {9}
\* the strings typed into the cheat dialog: "1F" and "zz"
CheatInputs == {<<49, 70>>, <<122, 122>>}
\* datagrams received from the peer; <<>> is "nothing usable received"
PeerData == {<<>>, <<7>>}

StackPointer == W(StackPointerHi, StackPointerLo)

\* lines 268-271 / 348-351 on a vector register list
MarioSeeds(vu) == Set(Set(Set(vu, 0, W(0, SeedRed)), 1, W(0, SeedGreen)), 2, W(0, SeedBlue))

(***************************** user operations *****************************)
\* load_rom, after select_rom or the file dialog has set rom_path to f
LoadRom(f) ==
  LET out == Normalize(f.data)
      title == TitleOf(out.data, f.name)
  IN
  /\ IF out.ok
       THEN /\ rom_path' = f.name
            /\ rom_data' = out.data
            /\ rom_title' = title
            /\ pc' = EntryPoint
            /\ rdram' = ZeroMem
            /\ IF IsMario(title)
                 THEN /\ hregs' = [hregs EXCEPT ![cpu_registers] = Set(@, 29, StackPointer)]
                      /\ vu_registers' = MarioSeeds(vu_registers)
                 ELSE /\ hregs' = hregs
                      /\ \E r \in SeedValues, g \in SeedValues, b \in SeedValues :
                           vu_registers' =
                             Set(Set(Set(vu_registers, 0, W(0, r)), 1, W(0, g)), 2, W(0, b))
       ELSE /\ rom_path' = NoPath
            /\ rom_data' = f.data
            /\ UNCHANGED <<rom_title, pc, rdram, hregs, vu_registers>>
  /\ UNCHANGED <<is_running, frame_count, save_states, cheat_codes, cpu_registers,
                 netplay_enabled, netplay_socket, framebuffer, rsp_memory, rsp_pc,
                 use_test_pattern, hfb, hrsp, workers, shadow>>
  /\ ev' = Event("load_rom", f.name, IF out.ok THEN "ok" ELSE out.err, NoStep)

\* a faulty variant: no test of is_running
StartEmulation_Unguarded ==
  /\ IF rom_path # NoPath
       THEN /\ Len(workers) < MaxWorkers
            /\ is_running' = TRUE
            /\ workers' = Append([i \in 1..Len(workers) |-> [workers[i] EXCEPT !.late = 0]],
                                 NoThread)
       ELSE UNCHANGED <<is_running, workers>>
  /\ UNCHANGED <<rom_path, rom_title, rom_data, frame_count, pc, save_states,
                 cheat_codes, cpu_registers, rdram, netplay_enabled, netplay_socket,
                 vu_registers, framebuffer, rsp_memory, rsp_pc, use_test_pattern,
                 hregs, hfb, hrsp, shadow>>
  /\ ev' = Event("start", is_running, IF rom_path = NoPath THEN "No ROM" ELSE "ok", NoStep)

\* start_emulation
StartEmulation ==
  /\ IF rom_path # NoPath /\ ~is_running
       THEN /\ Len(workers) < MaxWorkers
            /\ is_running' = TRUE
            /\ workers' = Append([i \in 1..Len(workers) |-> [workers[i] EXCEPT !.late = 0]],
                                 NoThread)
       ELSE UNCHANGED <<is_running, workers>>
  /\ UNCHANGED <<rom_path, rom_title, rom_data, frame_count, pc, save_states,
                 cheat_codes, cpu_registers, rdram, netplay_enabled, netplay_socket,
                 vu_registers, framebuffer, rsp_memory, rsp_pc, use_test_pattern,
                 hregs, hfb, hrsp, shadow>>
  /\ ev' = Event("start", is_running, IF rom_path = NoPath THEN "No ROM" ELSE "ok", NoStep)

\* a faulty variant: pause as a toggle
PauseEmulation_Toggle ==
  /\ is_running' = ~is_running
  /\ UNCHANGED <<rom_path, rom_title, rom_data, frame_count, pc, save_states,
                 cheat_codes, cpu_registers, rdram, netplay_enabled, netplay_socket,
                 vu_registers, framebuffer, rsp_memory, rsp_pc, use_test_pattern,
                 hregs, hfb, hrsp, workers, shadow>>
  /\ ev' = Event("pause", is_running, "ok", NoStep)

\* pause_emulation
PauseEmulation ==
  /\ is_running' = IF is_running THEN FALSE ELSE is_running
  /\ UNCHANGED <<rom_path, rom_title, rom_data, frame_count, pc, save_states,
                 cheat_codes, cpu_registers, rdram, netplay_enabled, netplay_socket,
                 vu_registers, framebuffer, rsp_memory, rsp_pc, use_test_pattern,
                 hregs, hfb, hrsp, workers, shadow>>
  /\ ev' = Event("pause", is_running, "ok", NoStep)

\* the assignments of stop_emulation, shared with reset_emulation
StopFields ==
  /\ is_running' = FALSE
  /\ frame_count' = 0
  /\ pc' = EntryPoint
  /\ netplay_socket' = FALSE

\* stop_emulation
StopEmulation ==
  /\ StopFields
  /\ UNCHANGED <<rom_path, rom_title, rom_data, save_states, cheat_codes,
                 cpu_registers, rdram, netplay_enabled, vu_registers, framebuffer,
                 rsp_memory, rsp_pc, use_test_pattern, hregs, hfb, hrsp, workers,
                 shadow>>
  /\ ev' = Event("stop", is_running, "ok", NoStep)

\* reset_emulation
ResetEmulation ==
  LET rid == Fresh(LiveId, SnapRefs("cpu_registers", {}))
      mid == Fresh(LiveId, SnapRefs("rsp_memory", {}))
      regs == IF IsMario(rom_title) THEN Set(ZeroRegs, 29, StackPointer) ELSE ZeroRegs
  IN
  /\ StopFields
  /\ cpu_registers' = rid
  /\ hregs' = Put(hregs, rid, regs, SnapRefs("cpu_registers", {}))
  /\ vu_registers' = IF IsMario(rom_title) THEN MarioSeeds(ZeroRegs) ELSE ZeroRegs
  /\ rsp_memory' = mid
  /\ hrsp' = Put(hrsp, mid, ZeroMem, SnapRefs("rsp_memory", {}))
  /\ rdram' = ZeroMem
  /\ UNCHANGED <<rom_path, rom_title, rom_data, save_states, cheat_codes,
                 netplay_enabled, framebuffer, rsp_pc, use_test_pattern, hfb, workers,
                 shadow>>
  /\ ev' = Event("reset", is_running, "ok", NoStep)

\* soft_reset
SoftReset ==
  /\ pc' = EntryPoint
  /\ UNCHANGED <<is_running, rom_path, rom_title, rom_data, frame_count, save_states,
                 cheat_codes, cpu_registers, rdram, netplay_enabled, netplay_socket,
                 vu_registers, framebuffer, rsp_memory, rsp_pc, use_test_pattern,
                 hregs, hfb, hrsp, workers, shadow>>
  /\ ev' = Event("soft_reset", 0, "ok", NoStep)

\* handle_input, for a key whose action hashes to v
HandleInput(v) ==
  /\ hregs' = IF is_running THEN [hregs EXCEPT ![cpu_registers] = Set(@, 5, W(0, v))]
              ELSE hregs
  /\ UNCHANGED <<is_running, rom_path, rom_title, rom_data, frame_count, pc,
                 save_states, cheat_codes, cpu_registers, rdram, netplay_enabled,
                 netplay_socket, vu_registers, framebuffer, rsp_memory, rsp_pc,
                 use_test_pattern, hfb, hrsp, workers, shadow>>
  /\ ev' = Event("input", v, "ok", NoStep)

\* add_cheat_code: a dict keeps a key already present where it is
AddCheatCode(code) ==
  /\ \/ \E i \in 1..Len(cheat_codes) : cheat_codes[i] = code
     \/ Len(cheat_codes) < MaxCheats
  /\ cheat_codes' = IF \E i \in 1..Len(cheat_codes) : cheat_codes[i] = code
                      THEN cheat_codes ELSE Append(cheat_codes, code)
  /\ UNCHANGED <<is_running, rom_path, rom_title, rom_data, frame_count, pc,
                 save_states, cpu_registers, rdram, netplay_enabled, netplay_socket,
                 vu_registers, framebuffer, rsp_memory, rsp_pc, use_test_pattern,
                 hregs, hfb, hrsp, workers, shadow>>
  /\ ev' = Event("cheat", code, "ok", NoStep)

\* toggle_netplay; opened says whether the socket could be set up
ToggleNetplay(opened) ==
  /\ IF ~netplay_enabled
       THEN /\ netplay_enabled' = opened
            /\ netplay_socket' = opened
       ELSE /\ netplay_enabled' = FALSE
            /\ netplay_socket' = FALSE
  /\ UNCHANGED <<is_running, rom_path, rom_title, rom_data, frame_count, pc,
                 save_states, cheat_codes, cpu_registers, rdram, vu_registers,
                 framebuffer, rsp_memory, rsp_pc, use_test_pattern, hregs, hfb, hrsp,
                 workers, shadow>>
  /\ ev' = Event("netplay", opened, IF netplay_enabled \/ opened THEN "ok" ELSE "Netplay Error", NoStep)

\* toggle_test_pattern
ToggleTestPattern ==
  /\ use_test_pattern' = ~use_test_pattern
  /\ UNCHANGED <<is_running, rom_path, rom_title, rom_data, frame_count, pc,
                 save_states, cheat_codes, cpu_registers, rdram, netplay_enabled,
                 netplay_socket, vu_registers, framebuffer, rsp_memory, rsp_pc,
                 hregs, hfb, hrsp, workers, shadow>>
  /\ ev' = Event("test_pattern", 0, "ok", NoStep)

(******************************* save states *******************************)
\* a faulty variant: the list itself is stored, not a copy of it
SavedRegs_Alias(s) == cpu_registers

\* the ids of the copies save_state stores in slot s (lines 439, 441, 443)
SavedRegs(s) == Fresh(s, {cpu_registers} \cup SnapRefs("cpu_registers", {s}))
SavedFb(s) == Fresh(s, {framebuffer} \cup SnapRefs("framebuffer", {s}))
SavedRsp(s) == Fresh(s, {rsp_memory} \cup SnapRefs("rsp_memory", {s}))

\* history: every value of the machine at a save, the vector registers included
Capture ==
  [frame_count |-> frame_count, pc |-> pc, cpu_registers |-> hregs[cpu_registers],
   rom_title |-> rom_title, framebuffer |-> hfb[framebuffer], rdram |-> rdram,
   rsp_memory |-> hrsp[rsp_memory], vu_registers |-> vu_registers]

\* a faulty variant: the dialog returns whatever integer was typed
AskInteger_AnyInteger(n) == n

\* simpledialog.askinteger(..., minvalue=1, maxvalue=10) when the user types n:
\* a number outside the range is refused and the dialog ends cancelled (None,
\* written 0); typing nothing is 0 as well
AskInteger(n) == IF n >= MinSlotKey /\ n <= MaxSlotKey THEN n ELSE 0

\* what the user types into the slot dialog: nothing, a slot, or 11
TypedSlots == (0..MaxSlot) \cup {MaxSlotKey + 1}

\* save_state, n being typed into the dialog
SaveState(n) ==
  LET s == AskInteger(n)
      stored == rom_path # NoPath /\ s # 0
      rid == SavedRegs(s)
      fid == SavedFb(s)
      mid == SavedRsp(s)
      state_data == [frame_count |-> frame_count, pc |-> pc, cpu_registers |-> rid,
                     rom_title |-> rom_title, framebuffer |-> fid, rdram |-> rdram,
                     rsp_memory |-> mid]
  IN
  /\ IF stored
       THEN /\ save_states' = [t \in (DOMAIN save_states) \cup {s} |->
                                 IF t = s THEN state_data ELSE save_states[t]]
            /\ hregs' = Put(hregs, rid, hregs[cpu_registers],
                            {cpu_registers} \cup SnapRefs("cpu_registers", {s}))
            /\ hfb' = Put(hfb, fid, hfb[framebuffer],
                          {framebuffer} \cup SnapRefs("framebuffer", {s}))
            /\ hrsp' = Put(hrsp, mid, hrsp[rsp_memory],
                           {rsp_memory} \cup SnapRefs("rsp_memory", {s}))
            /\ shadow' = [t \in (DOMAIN shadow) \cup {s} |->
                            IF t = s THEN Capture ELSE shadow[t]]
       ELSE UNCHANGED <<save_states, hregs, hfb, hrsp, shadow>>
  /\ UNCHANGED <<is_running, rom_path, rom_title, rom_data, frame_count, pc,
                 cheat_codes, cpu_registers, rdram, netplay_enabled, netplay_socket,
                 vu_registers, framebuffer, rsp_memory, rsp_pc, use_test_pattern,
                 workers>>
  /\ ev' = Event("save_state", n,
               IF rom_path = NoPath THEN "No ROM" ELSE IF s = 0 THEN "cancelled" ELSE "Saved",
               NoStep)

\* the test of line 455, after the guard of lines 451-453
SlotFound(s) == rom_path # NoPath /\ s \in DOMAIN save_states

\* a faulty variant: pc is not restored
Restored_KeepPc(state) ==
  [frame_count |-> state.frame_count, pc |-> pc,
   cpu_registers |-> hregs[state.cpu_registers], rom_title |-> state.rom_title,
   framebuffer |-> hfb[state.framebuffer], rdram |-> state.rdram,
   rsp_memory |-> hrsp[state.rsp_memory]]

\* what lines 458-464 put into the machine from the stored state
Restored(state) ==
  [frame_count |-> state.frame_count, pc |-> state.pc,
   cpu_registers |-> hregs[state.cpu_registers], rom_title |-> state.rom_title,
   framebuffer |-> hfb[state.framebuffer], rdram |-> state.rdram,
   rsp_memory |-> hrsp[state.rsp_memory]]

\* a faulty variant: a missing slot rewinds the frame counter
LoadMiss_Rewind ==
  /\ frame_count' = 0
  /\ UNCHANGED <<pc, cpu_registers, hregs, rom_title, framebuffer, hfb, rdram,
                 rsp_memory, hrsp>>

\* lines 467-468 (and 452-453): a warning dialog and nothing else
LoadMiss ==
  UNCHANGED <<frame_count, pc, cpu_registers, hregs, rom_title, framebuffer, hfb,
              rdram, rsp_memory, hrsp>>

\* load_state, n being typed into the dialog
LoadState(n) ==
  LET s == AskInteger(n)
      rid == Fresh(LiveId, SnapRefs("cpu_registers", {}))
      fid == Fresh(LiveId, SnapRefs("framebuffer", {}))
      mid == Fresh(LiveId, SnapRefs("rsp_memory", {}))
  IN
  /\ IF SlotFound(s)
       THEN LET new == Restored(save_states[s]) IN
            /\ frame_count' = new.frame_count
            /\ pc' = new.pc
            /\ cpu_registers' = rid
            /\ hregs' = Put(hregs, rid, new.cpu_registers, SnapRefs("cpu_registers", {}))
            /\ rom_title' = new.rom_title
            /\ framebuffer' = fid
            /\ hfb' = Put(hfb, fid, new.framebuffer, SnapRefs("framebuffer", {}))
            /\ rdram' = new.rdram
            /\ rsp_memory' = mid
            /\ hrsp' = Put(hrsp, mid, new.rsp_memory, SnapRefs("rsp_memory", {}))
       ELSE LoadMiss
  /\ UNCHANGED <<is_running, rom_path, rom_data, save_states, cheat_codes,
                 netplay_enabled, netplay_socket, vu_registers, rsp_pc,
                 use_test_pattern, workers, shadow>>
  /\ ev' = Event("load_state", n,
               IF rom_path = NoPath THEN "No ROM"
               ELSE IF SlotFound(s) THEN "Loaded" ELSE "No State",
               NoStep)

(****************************** the step loop ******************************)
\* the branch of lines 370-405 an opcode takes, which fixes the lambda cached
KindOf(op) ==
  IF op = OP_ADD THEN "ADD" ELSE IF op = OP_SW THEN "SW" ELSE IF op = OP_LW THEN "LW"
  ELSE IF op = OP_J THEN "J" ELSE IF op = OP_JAL THEN "JAL"
  ELSE IF op = OP_LUI THEN "LUI" ELSE "NOP"

\* the locals rs, rt, rd, imm, target of emulation_loop after decoding word:
\* each branch assigns its own and leaves the others as they were
Decode(c, word) ==
  LET k == KindOf(OpOf(word)) IN
  IF k = "ADD" THEN [c EXCEPT !.rs = RsOf(word), !.rt = RtOf(word), !.rd = RdOf(word)]
  ELSE IF k = "SW" THEN [c EXCEPT !.rt = RtOf(word)]
  ELSE IF k = "LW" THEN [c EXCEPT !.rt = RtOf(word), !.imm = W(0, ImmOf(word))]
  ELSE IF k = "J" \/ k = "JAL" THEN [c EXCEPT !.target = TargetOf(word)]
  ELSE IF k = "LUI" THEN [c EXCEPT !.rt = RtOf(word), !.imm = W(ImmOf(word), 0)]
  ELSE c

\* the locals a lambda of kind k reads when it is called
Reads(k) ==
  IF k = "ADD" THEN {"rs", "rt", "rd"} ELSE IF k = "SW" THEN {"rt"}
  ELSE IF k = "LW" \/ k = "LUI" THEN {"rt", "imm"}
  ELSE IF k = "J" \/ k = "JAL" THEN {"target"} ELSE {}

\* (pc & 0xF0000000) | target, for a target below 2^28
JumpTo(at, target) == (at \div Region) * Region + target

\* calling the lambda of kind k: the locals are read now, from c
ExecHandler(k, c, m) ==
  IF k = "ADD" THEN
    [m EXCEPT !.regs = Set(m.regs, c.rd, Add32(Get(m.regs, c.rs), Get(m.regs, c.rt))),
              !.rebound = TRUE]
  ELSE IF k = "SW" THEN [m EXCEPT !.vu = Set(m.vu, 0, Get(m.regs, c.rt))]
  ELSE IF k = "LW" THEN
    [m EXCEPT !.regs = Set(m.regs, c.rt,
                           RamGet(m.rdram, ModW(c.imm, RdramSize))),
              !.rebound = TRUE]
  ELSE IF k = "J" THEN [m EXCEPT !.pc = JumpTo(m.pc, c.target)]
  ELSE IF k = "JAL" THEN
    [m EXCEPT !.regs = SubSeq(m.regs, 1, 31) \o <<ToW(m.pc + 8)>>
                       \o SubSeq(m.regs, 32, Len(m.regs)),
              !.rebound = TRUE,
              !.pc = JumpTo(m.pc, c.target)]
  ELSE IF k = "LUI" THEN [m EXCEPT !.regs = Set(m.regs, c.rt, c.imm), !.rebound = TRUE]
  ELSE m

\* line 61 on every pixel
Colour(vu) ==
  (Get(vu, 0)[2] % 256) * Half + (Get(vu, 1)[2] % 256) * 256 + (Get(vu, 2)[2] % 256)

\* RealityCoprocessor.rsp_execute(rom, at); the value returned is put in pc
RspExecute(rom, at, m) ==
  IF at + 4 > rom.len THEN [m EXCEPT !.pc = at + 4]
  ELSE
    LET opcode == WordAt(rom, at)
        op == OpOf(opcode)
        rs == RsOf(opcode)
        rt == RtOf(opcode)
        rd == RdOf(opcode)
        vu == IF op = OP_VADD THEN Set(m.vu, rd, Add16(Get(m.vu, rs), Get(m.vu, rt)))
              ELSE IF op = OP_VMUL THEN Set(m.vu, rd, Mul16(Get(m.vu, rs), Get(m.vu, rt)))
              ELSE IF op = OP_VMOV THEN Set(m.vu, rd, Get(m.vu, rs))
              ELSE m.vu
    IN  [m EXCEPT !.vu = vu,
                  !.fb = [p \in Pixels |-> Colour(vu)],
                  !.rsp = MemSet(m.rsp, m.rsp_pc % RspMemSize, opcode[2]),
                  !.rsp_pc = m.rsp_pc + 4,
                  !.pc = at + 4]

\* lines 407-410, op being the opcode of the word fetched in this iteration
Advance(op, rom, m) ==
  IF op = OP_SW THEN RspExecute(rom, m.pc, m)
  ELSE IF op \notin {OP_J, OP_JAL} THEN [m EXCEPT !.pc = m.pc + 4]
  ELSE m

HexDigit(ch) ==
  IF ch >= 48 /\ ch <= 57 THEN ch - 48
  ELSE IF ch >= 65 /\ ch <= 70 THEN ch - 55
  ELSE IF ch >= 97 /\ ch <= 102 THEN ch - 87
  ELSE -1

\* int(code, 16) for a string of hexadecimal digits; -1 where int raises ValueError
RECURSIVE HexValue(_)
HexValue(code) ==
  IF Len(code) = 0 THEN -1
  ELSE LET d == HexDigit(code[Len(code)])
           rest == SubSeq(code, 1, Len(code) - 1)
       IN  IF d = -1 THEN -1
           ELSE IF Len(rest) = 0 THEN d
           ELSE IF HexValue(rest) = -1 THEN -1 ELSE HexValue(rest) * 16 + d

\* lines 411-414 from the i-th code on; hit holds the codes whose draw was below 0.1
RECURSIVE ApplyCheats(_, _, _, _)
ApplyCheats(codes, hit, i, m) ==
  IF i > Len(codes) THEN m
  ELSE IF i \notin hit THEN ApplyCheats(codes, hit, i + 1, m)
  ELSE IF HexValue(codes[i]) = -1 THEN [m EXCEPT !.err = "cheat"]
  ELSE ApplyCheats(codes, hit, i + 1,
                   [m EXCEPT !.regs = Set(m.regs, 1, W(0, HexValue(codes[i]) % InputMod))])

\* int.from_bytes(data, 'big')
RECURSIVE FromBytes(_)
FromBytes(data) ==
  IF Len(data) = 0 THEN 0
  ELSE FromBytes(SubSeq(data, 1, Len(data) - 1)) * 256 + data[Len(data)]

\* lines 415-422; a failing recv is swallowed and is the same as no data
ApplyPeer(on, data, m) ==
  IF on /\ Len(data) > 0
    THEN [m EXCEPT !.regs = Set(m.regs, 6, W(0, FromBytes(data) % InputMod))]
    ELSE m

\* lines 81-86 at pixel <<y, x>>
Gradient(p) ==
  LET y == p[1]
      x == p[2]
      r == ((x * 255) \div FbWidth) % 256
      g == ((y * 255) \div FbHeight) % 256
      b == (((x + y) * 255) \div (FbWidth + FbHeight)) % 256
  IN  r * Half + g * 256 + b

\* RealityCoprocessor.rdp_render on the framebuffer
Render(pattern, m) ==
  IF (\A p \in Pixels : m.fb[p] = 0) /\ pattern
    THEN [m EXCEPT !.fb = [p \in Pixels |-> Gradient(p)]]
    ELSE m

\* lines 406-423: the lambda cached from word x is called with the locals c, pc is
\* moved according to op, cheats and peer input are applied, the frame is rendered.
\* An exception (m.err) skips what follows it.
StepCore(x, c, op, rom, codes, hit, peer, data, pattern, m) ==
  LET m1 == Advance(op, rom, ExecHandler(KindOf(OpOf(x)), c, m))
      m2 == ApplyCheats(codes, hit, 1, m1)
  IN  IF m2.err # "none" THEN m2
      ELSE Render(pattern, ApplyPeer(peer, data, m2))

\* rom with the word x at offset a
Patch(rom, a, x) == [rom EXCEPT !.bytes = Sparse(WordBytes(a, x[1], x[2]) @@ rom.bytes)]

Cells(t) == [rs |-> t.rs, rt |-> t.rt, rd |-> t.rd, imm |-> t.imm, target |-> t.target]

\* a faulty variant: the loop does not look at is_running
LoopCond_NoFlag == pc < rom_data.len

\* the test of the while loop, line 361
LoopCond == is_running /\ pc < rom_data.len

Drop(q, w) == [i \in 1..(Len(q) - 1) |-> IF i < w THEN q[i] ELSE q[i + 1]]

\* thread w at the top of the loop: lines 361-364, or the end of the thread
WorkerCheck(w) ==
  /\ w \in 1..Len(workers)
  /\ workers[w].loc = "top"
  /\ IF LoopCond
       THEN /\ frame_count < MaxFrame
            /\ frame_count' = frame_count + 1
            /\ workers' = [workers EXCEPT ![w].loc = "body"]
       ELSE /\ frame_count' = frame_count
            /\ workers' = Drop(workers, w)
  /\ UNCHANGED <<is_running, rom_path, rom_title, rom_data, pc, save_states,
                 cheat_codes, cpu_registers, rdram, netplay_enabled, netplay_socket,
                 vu_registers, framebuffer, rsp_memory, rsp_pc, use_test_pattern,
                 hregs, hfb, hrsp, shadow>>
  /\ ev' = Event("check", w, IF LoopCond THEN "iterate" ELSE "exit", NoStep)

\* thread w in the loop body: the try block of lines 365-428
WorkerStep(w) ==
  /\ w \in 1..Len(workers)
  /\ workers[w].loc = "body"
  /\ UNCHANGED <<is_running, rom_path, rom_title, rom_data, frame_count, save_states,
                 cheat_codes, rdram, netplay_enabled, netplay_socket, framebuffer,
                 rsp_memory, use_test_pattern, shadow>>
  /\ LET t == workers[w]
         at == pc
         m0 == [regs |-> hregs[cpu_registers], rebound |-> FALSE, vu |-> vu_registers,
                pc |-> pc, fb |-> hfb[framebuffer], rsp |-> hrsp[rsp_memory],
                rsp_pc |-> rsp_pc, rdram |-> rdram, err |-> "none"]
         late == IF is_running THEN t.late ELSE t.late + 1
     IN
     IF at + 4 > rom_data.len
       THEN \* struct.error at line 367, handled at lines 426-428
            /\ pc' = pc + 4
            /\ workers' = [workers EXCEPT ![w].loc = "top", ![w].late = late]
            /\ UNCHANGED <<cpu_registers, vu_registers, rsp_pc, hregs, hfb, hrsp>>
            /\ ev' = Event("step", w, "error", [err |-> "fetch", at |-> at])
       ELSE
         LET word == WordAt(rom_data, at)
             fresh == at \notin DOMAIN t.cache
             c == IF fresh THEN Decode(Cells(t), word) ELSE Cells(t)
             x == IF fresh THEN word ELSE t.cache[at]
             peer == netplay_enabled /\ netplay_socket
         IN
         \E hit \in SUBSET (1..Len(cheat_codes)),
            data \in (IF peer THEN PeerData ELSE {<<>>}) :
           LET m == StepCore(x, c, OpOf(word), rom_data, cheat_codes, hit, peer, data,
                             use_test_pattern, m0)
               want == StepCore(x, Decode(c, x), OpOf(x), Patch(rom_data, at, x),
                                cheat_codes, hit, peer, data, use_test_pattern, m0)
               Out(r) == [pc |-> IF r.err # "none" THEN r.pc + 4 ELSE r.pc,
                          regs |-> r.regs, vu |-> r.vu]
               rid == IF m.rebound THEN Fresh(LiveId, SnapRefs("cpu_registers", {}))
                      ELSE cpu_registers
           IN
           /\ Len(m.regs) <= NumRegs + MaxJal
           /\ m.rsp_pc <= 4 * MaxRspSteps
           /\ pc' = Out(m).pc
           /\ cpu_registers' = rid
           /\ hregs' = Put(hregs, rid, m.regs, SnapRefs("cpu_registers", {}))
           /\ vu_registers' = m.vu
           /\ hfb' = [hfb EXCEPT ![framebuffer] = m.fb]
           /\ hrsp' = [hrsp EXCEPT ![rsp_memory] = m.rsp]
           /\ rsp_pc' = m.rsp_pc
           /\ workers' = [workers EXCEPT
                            ![w] = [loc |-> "top", cache |-> (at :> x) @@ t.cache,
                                    rs |-> c.rs, rt |-> c.rt, rd |-> c.rd, imm |-> c.imm,
                                    target |-> c.target, late |-> late]]
           /\ ev' = Event("step", w, IF m.err = "none" THEN "ok" ELSE "error",
                          [err |-> m.err, at |-> at, word |-> word, cached |-> x,
                           fresh |-> fresh, used |-> c, got |-> Out(m),
                           want |-> Out(want), before |-> m0.regs, hit |-> hit,
                           data |-> data, vu_before |-> vu_registers,
                           handled |-> ExecHandler(KindOf(OpOf(x)), c, m0).regs])

(***************************** specification *******************************)
\* what the user can do from the window
UserOp ==
  \/ \E f \in Files : LoadRom(f)
  \/ StartEmulation
  \/ PauseEmulation
  \/ StopEmulation
  \/ ResetEmulation
  \/ SoftReset
  \/ \E v \in InputValues : HandleInput(v)
  \/ \E code \in CheatInputs : AddCheatCode(code)
  \/ \E opened \in BOOLEAN : ToggleNetplay(opened)
  \/ ToggleTestPattern
  \/ \E n \in TypedSlots : SaveState(n)
  \/ \E n \in TypedSlots : LoadState(n)

\* what the emulation threads do
WorkerOp ==
  \/ \E w \in 1..MaxWorkers : WorkerCheck(w)
  \/ \E w \in 1..MaxWorkers : WorkerStep(w)

Next ==
  \/ ops < MaxUserOps /\ UserOp /\ ops' = ops + 1
  \/ WorkerOp /\ ops' = ops

Spec == Init /\ [][Next]_vars

(******************* the loader and the coprocessor alone ******************)
V64Header == (0 :> 55) @@ (1 :> 128) @@ (2 :> 64) @@ (3 :> 18)
\* the n64 magic 40 12 37 80 at the start of the file
N64Header == (0 :> 64) @@ (1 :> 18) @@ (2 :> 55) @@ (3 :> 128)

\* "v": byte-swapped, an even number of bytes
FileV ==
  [name |-> <<118>>,
   data |-> [len |-> MinRomSize + 2, bytes |-> V64Header @@ ((MinRomSize + 1) :> 5)]]

\* "w": byte-swapped, an odd number of bytes
FileVOdd ==
  [name |-> <<119>>,
   data |-> [len |-> MinRomSize + 1, bytes |-> V64Header @@ (MinRomSize :> 5)]]

\* "n": little-endian, an odd number of bytes
FileN ==
  [name |-> <<110>>,
   data |-> [len |-> MinRomSize + 1, bytes |-> N64Header @@ (MinRomSize :> 5)]]

\* "z": big-endian, an odd number of bytes
FileZOdd ==
  [name |-> <<122>>,
   data |-> [len |-> MinRomSize + 1, bytes |-> Z64Header @@ (MinRomSize :> 5)]]

\* "r": VADD v3 = v6 + v7 ; VMUL v4 = v6 * v7 ; VMOV v5 = v6 ; SW r2,4 ; 2 bytes
FileR ==
  [name |-> <<114>>,
   data |-> [len |-> MinRomSize + 18,
             bytes |-> Sparse(Z64Header
                              @@ WordBytes(MinRomSize, OP_VADD * 1024 + 6 * 32 + 7, 3 * 2048)
                              @@ WordBytes(MinRomSize + 4, OP_VMUL * 1024 + 6 * 32 + 7, 4 * 2048)
                              @@ WordBytes(MinRomSize + 8, OP_VMOV * 1024 + 6 * 32, 5 * 2048)
                              @@ WordBytes(MinRomSize + 12, OP_SW * 1024 + 2, 4))]]

UnitFiles == {FileV, FileVOdd, FileN, FileZOdd, FileR}
UnitFileOf(name) == CHOOSE f \in UnitFiles : f.name = name

\* the addresses rsp_execute is called with: the four words of "r" and the
\* two bytes after them
UnitAddrs == {MinRomSize + 4 * k : k \in 0..4}

\* the values vector registers 6 and 7 start with: 0, 3, 0xFFFF and the unmasked
\* 0x8033B400 that SW and VMOV can put there
UnitValues == {Zero, W(0, 3), W(0, Half - 1), StackPointer}

\* the machine after construction, with vector registers 6 and 7 drawn from
\* UnitValues
UnitInit ==
  /\ is_running = FALSE
  /\ rom_path = NoPath
  /\ rom_title = UnknownTitle
  /\ rom_data = EmptyBytes
  /\ frame_count = 0
  /\ pc = EntryPoint
  /\ save_states = <<>>
  /\ cheat_codes = <<>>
  /\ cpu_registers = LiveId
  /\ rdram = ZeroMem
  /\ netplay_enabled = FALSE
  /\ netplay_socket = FALSE
  /\ \E a \in UnitValues, b \in UnitValues : vu_registers = Set(Set(ZeroRegs, 6, a), 7, b)
  /\ framebuffer = LiveId
  /\ rsp_memory = LiveId
  /\ rsp_pc = 0
  /\ use_test_pattern = TRUE
  /\ hregs = [i \in ObjIds |-> IF i = LiveId THEN ZeroRegs ELSE <<>>]
  /\ hfb = [i \in ObjIds |-> IF i = LiveId THEN ZeroFb ELSE <<>>]
  /\ hrsp = [i \in ObjIds |-> <<>>]
  /\ workers = <<>>
  /\ ops = 0
  /\ shadow = <<>>
  /\ ev = [op |-> "init", arg |-> 0, out |-> "ok", changed |-> {}, snaps |-> {},
           st |-> NoStep, stopped |-> FALSE]

\* pc = rcp.rsp_execute(rom_data, at), the call of line 408 with any address
RspCall(at) ==
  /\ UNCHANGED <<is_running, rom_path, rom_title, rom_data, frame_count, save_states,
                 cheat_codes, cpu_registers, rdram, netplay_enabled, netplay_socket,
                 framebuffer, rsp_memory, use_test_pattern, hregs, workers, shadow>>
  /\ LET m0 == [regs |-> hregs[cpu_registers], rebound |-> FALSE, vu |-> vu_registers,
                pc |-> pc, fb |-> hfb[framebuffer], rsp |-> hrsp[rsp_memory],
                rsp_pc |-> rsp_pc, rdram |-> rdram, err |-> "none"]
         m == RspExecute(rom_data, at, m0)
     IN  /\ m.rsp_pc <= 4 * MaxRspSteps
         /\ pc' = m.pc
         /\ vu_registers' = m.vu
         /\ hfb' = [hfb EXCEPT ![framebuffer] = m.fb]
         /\ hrsp' = [hrsp EXCEPT ![rsp_memory] = m.rsp]
         /\ rsp_pc' = m.rsp_pc
         /\ ev' = Event("rsp_execute", at, IF at + 4 > rom_data.len THEN "error" ELSE "ok",
                        [err |-> "none", before |-> vu_registers, ret |-> m.pc])

UnitNext ==
  \/ (\E f \in UnitFiles : LoadRom(f)) /\ ops' = ops
  \/ (\E at \in UnitAddrs : RspCall(at)) /\ ops' = ops

UnitSpec == UnitInit /\ [][UnitNext]_vars

(******************* a run during which images are replaced ****************)
\* the images the user switches between while the loop runs
ReloadFiles == {FileJ, FileC}

\* the user loads an image, starts, pauses or rewinds; nothing else
ReloadOp ==
  \/ \E f \in ReloadFiles : LoadRom(f)
  \/ StartEmulation
  \/ PauseEmulation
  \/ SoftReset

ReloadNext ==
  \/ ops < MaxUserOps /\ ReloadOp /\ ops' = ops + 1
  \/ WorkerOp /\ ops' = ops

ReloadSpec == Init /\ [][ReloadNext]_vars

(******************************** the claims *******************************)
IsStep == ev.op = "step" /\ ev.st.err # "fetch"
IsLoaded == ev.op = "load_state" /\ ev.out = "Loaded"
Live ==
  [frame_count |-> frame_count, pc |-> pc, cpu_registers |-> hregs[cpu_registers],
   rom_title |-> rom_title, framebuffer |-> hfb[framebuffer], rdram |-> rdram,
   rsp_memory |-> hrsp[rsp_memory], vu_registers |-> vu_registers]
SavedFields == {"frame_count", "pc", "cpu_registers", "rom_title", "framebuffer",
                "rdram", "rsp_memory"}

\* C1: a step at an address whose cached handler came from a word X that the image
\* no longer holds there has the effect of X on the registers, the vector
\* registers and pc, and nothing of the word now in the image.
C1_StaleHandlerActsAsCachedWord ==
  (IsStep /\ ev.st.cached # ev.st.word) => ev.st.got = ev.st.want

\* C2: a step that runs a cached handler uses the register indices, immediate
\* and jump target decoded from the word the handler was cached from.
C2_HandlerUsesItsOwnOperands ==
  IsStep =>
    \A v \in Reads(KindOf(OpOf(ev.st.cached))) :
       ev.st.used[v] = Decode(ev.st.used, ev.st.cached)[v]

\* C3: after load_state has loaded slot s, the frame counter, pc, general
\* registers, title, framebuffer, rdram and scratch memory are those the machine
\* had when slot s was last saved.
C3_LoadRestoresSavedMachine ==
  IsLoaded => \A f \in SavedFields : Live[f] = shadow[ev.arg][f]

C3_Witness ==
  /\ IsLoaded
  /\ {"frame_count", "pc", "cpu_registers", "framebuffer", "rsp_memory"} \subseteq ev.changed

\* C4: the values stored in a slot change only by a save to that slot: no step,
\* reset, stop, input, load_rom or load_state changes a stored snapshot, and a save
\* to one slot changes no other slot.
C4_SnapshotsChangeOnlyBySave ==
  ev.snaps \subseteq (IF ev.op = "save_state" /\ ev.out = "Saved" THEN {ev.arg} ELSE {})

C4_Witness ==
  /\ ev.op = "input"
  /\ "cpu_registers" \in ev.changed
  /\ \E s \in DOMAIN save_states : SnapValue(s).cpu_registers # hregs[cpu_registers]
  /\ \E s \in DOMAIN save_states : shadow[s].cpu_registers = SnapValue(s).cpu_registers

\* C5: after load_state has loaded slot s, the vector registers are those the
\* machine had when slot s was last saved.
C5_LoadRestoresVectorRegisters ==
  IsLoaded => Live.vu_registers = shadow[ev.arg].vu_registers

\* C6: load_state on a slot that holds no snapshot reports "No State" (or, with
\* no ROM path, "No ROM") and changes no field of the machine and no snapshot.
C6_LoadOfEmptySlotChangesNothing ==
  (ev.op = "load_state" /\ ev.arg \notin DOMAIN save_states) =>
     /\ ev.out = (IF rom_path = NoPath THEN "No ROM" ELSE "No State")
     /\ ev.changed = {}
     /\ ev.snaps = {}

C6_Witness ==
  /\ ev.op = "load_state"
  /\ ev.out = "No State"
  /\ ev.arg \in Slots
  /\ save_states # <<>>
  /\ frame_count > 0

\* C7: an iteration in which an error occurs ends with pc exactly 4 above the pc
\* it started with.
C7_FailedStepAdvancesPcByFour ==
  (ev.op = "step" /\ ev.out = "error") => pc = ev.st.at + 4

\* C8 as claimed: pause or stop while is_running is false leaves pc, the frame
\* counter, the registers, the vector registers, rdram, the framebuffer, the
\* running flag and the netplay socket unchanged.
C8_PauseStopWhileIdleNoOp ==
  (ev.op \in {"pause", "stop"} /\ ev.arg = FALSE) =>
     ev.changed \cap {"pc", "frame_count", "cpu_registers", "vu_registers", "rdram",
                      "framebuffer", "is_running", "netplay_socket"} = {}

\* C8 as amended: pause while is_running is false changes nothing; stop while
\* is_running is false changes at most pc (to the entry point), the frame counter
\* (to 0) and the netplay socket (closed).
C8_IdlePauseNoOpIdleStopRewinds ==
  /\ (ev.op = "pause" /\ ev.arg = FALSE) => ev.changed = {}
  /\ (ev.op = "stop" /\ ev.arg = FALSE) =>
        /\ ev.changed \subseteq {"pc", "frame_count", "netplay_socket"}
        /\ pc = EntryPoint
        /\ frame_count = 0
        /\ ~netplay_socket

C8_Witness ==
  /\ ev.op = "stop"
  /\ ev.arg = FALSE
  /\ {"pc", "frame_count"} \subseteq ev.changed

\* C9: start while is_running is true starts no thread and changes no field.
C9_StartWhileRunningNoOp ==
  (ev.op = "start" /\ ev.arg = TRUE) => (ev.changed = {} /\ ev.snaps = {})

C9_Witness ==
  /\ ev.op = "start"
  /\ ev.arg = TRUE
  /\ Len(workers) = 1
  /\ workers[1].loc = "body"

\* C10: after is_running is cleared, and until start sets it again, a thread
\* runs at most the one iteration it had already begun.
C10_AtMostOneStepAfterClear ==
  \A i \in 1..Len(workers) : workers[i].late <= 1

C10_Witness ==
  /\ ~is_running
  /\ ev.op = "step"
  /\ workers[ev.arg].late = 1

\* C11: every vector register holds a value in [0, 0xFFFF]; the value SW writes
\* into vector register 0 is masked to 16 bits.
C11_VectorRegistersAre16Bit ==
  \A i \in 1..Len(vu_registers) : vu_registers[i][1] = 0

\* C12: the general register bank has exactly 32 slots, each holding a value in
\* [0, 2^32).
C12_RegisterBankIs32By32 ==
  /\ Len(hregs[cpu_registers]) = NumRegs
  /\ \A i \in 1..Len(hregs[cpu_registers]) : hregs[cpu_registers][i][1] < Half

\* a step that decoded an ADD word for the first time
IsFreshAdd == IsStep /\ ev.st.fresh /\ OpOf(ev.st.word) = OP_ADD
\* (rs + rt) mod 2^32 on the registers before the step, by halves
SumBefore ==
  LET a == Get(ev.st.before, RsOf(ev.st.word))
      b == Get(ev.st.before, RtOf(ev.st.word))
      lo == a[2] + b[2]
  IN  <<(a[1] + b[1] + (lo \div Half)) % Half, lo % Half>>
AfterAdd == [ev.st.before EXCEPT ![RdOf(ev.st.word) + 1] = SumBefore]

\* C13 as claimed: a step that decodes an ADD word for the first time sets rd to
\* (rs + rt) mod 2^32 and leaves every other general register unchanged.
C13_FreshAddSetsOnlyRd ==
  IsFreshAdd => ev.st.got.regs = AfterAdd

\* C13 as amended: a step that decodes an ADD word for the first time sets rd to
\* (rs + rt) mod 2^32 without trapping and leaves every other general register
\* unchanged, except register 1 when a cheat code is drawn in that iteration and
\* register 6 when peer input is received in it.
C13_FreshAddThenCheatAndPeer ==
  IsFreshAdd =>
    /\ Len(ev.st.got.regs) = Len(ev.st.before)
    /\ \A i \in 1..Len(ev.st.before) :
         \/ i = 2 /\ ev.st.hit # {}
         \/ i = 7 /\ ev.st.data # <<>>
         \/ ev.st.got.regs[i] = AfterAdd[i]

C13_Witness ==
  /\ IsFreshAdd
  /\ ev.out = "ok"
  /\ Get(ev.st.before, RsOf(ev.st.word))[1] + Get(ev.st.before, RtOf(ev.st.word))[1] >= Half
  /\ Get(hregs[cpu_registers], RdOf(ev.st.word)) = SumBefore

\* a call of rsp_execute on an in-bounds word, and the fields of that word
IsRspCall == ev.op = "rsp_execute" /\ ev.arg + 4 <= rom_data.len
RspWord == WordAt(rom_data, ev.arg)
\* (vs * vt) mod 2^16 on the low halves, vs split into bytes
ProductBefore(a, b) == (((a[2] % 256) * b[2]) + (((a[2] \div 256) * b[2]) % 256) * 256) % Half
VectorResult ==
  LET a == Get(ev.st.before, RsOf(RspWord))
      b == Get(ev.st.before, RtOf(RspWord))
  IN  IF OpOf(RspWord) = OP_VADD THEN <<0, (a[2] + b[2]) % Half>>
      ELSE IF OpOf(RspWord) = OP_VMUL THEN <<0, ProductBefore(a, b)>>
      ELSE a

\* C14: rsp_execute on an in-bounds word with opcode VADD, VMUL or VMOV sets vd to
\* (vs + vt) mod 2^16, (vs * vt) mod 2^16 or vs, leaves every other vector
\* register unchanged and returns the address plus 4.
C14_VectorOpsSetOnlyVd ==
  (IsRspCall /\ OpOf(RspWord) \in {OP_VADD, OP_VMUL, OP_VMOV}) =>
    /\ vu_registers = [ev.st.before EXCEPT ![RdOf(RspWord) + 1] = VectorResult]
    /\ ev.st.ret = ev.arg + 4
    /\ pc = ev.arg + 4

C14_Witness ==
  /\ IsRspCall
  /\ OpOf(RspWord) = OP_VMUL
  /\ Get(ev.st.before, 6) = W(0, Half - 1)
  /\ Get(ev.st.before, 7) = W(0, Half - 1)
  /\ Get(vu_registers, 4) = W(0, 1)
  /\ Get(vu_registers, 3) # Zero

\* C16: load_rom of a file of at least 64 bytes that begins with one of the three
\* magics succeeds, whether the length is even or odd, and the image it leaves has
\* the length of the file and is the same on every load of these bytes.
C16_LoadKeepsLengthForEveryMagic ==
  LET f == UnitFileOf(ev.arg)
  IN  (/\ ev.op = "load_rom"
       /\ f.data.len >= MinRomSize
       /\ Magic(f.data) \in {MagicZ64, MagicV64, MagicN64}) =>
        /\ ev.out = "ok"
        /\ rom_data.len = f.data.len
        /\ rom_data = Normalize(f.data).data

\* C15: the occupied slot keys are integers in 1..10; a save_state in which a
\* number outside 1..10 (such as 11) is entered is rejected and stores nothing.
C15_SlotKeysWithinOneToTen ==
  /\ DOMAIN save_states \subseteq MinSlotKey..MaxSlotKey
  /\ (ev.op = "save_state" /\ ev.arg \notin MinSlotKey..MaxSlotKey) =>
        /\ ev.out # "Saved"
        /\ ev.snaps = {}
        /\ ev.changed = {}

C15_Witness ==
  /\ ev.op = "save_state"
  /\ ev.arg = MaxSlotKey + 1
  /\ rom_path # NoPath
  /\ DOMAIN save_states = {MinSlotKey}

\* the pc the rule gives for word w at address a
RulePc(a, w) ==
  IF OpOf(w) \in {OP_J, OP_JAL} THEN (a \div Region) * Region + TargetOf(w) ELSE a + 4

\* C17: after a successful step at address A, pc is (A & 0xF0000000) | (low 26
\* bits << 2) when the instruction executed is J or JAL, and A + 4 for SW and for
\* every other opcode; the instruction executed is taken to be either the word
\* fetched or the word whose handler ran.
C17_PcFollowsExecutedInstruction ==
  (IsStep /\ ev.out = "ok") =>
     pc \in {RulePc(ev.st.at, ev.st.word), RulePc(ev.st.at, ev.st.cached)}

\* C18: a step at address A whose word is JAL and whose handler was made from
\* that word sets register 31 to A + 8, leaves registers 0..30 unchanged and
\* sets pc to (A & 0xF0000000) | (low 26 bits << 2); steps in which a cheat or
\* peer input was applied are left aside.
C18_JalLinksAndJumps ==
  (/\ IsStep
   /\ ev.out = "ok"
   /\ OpOf(ev.st.word) = OP_JAL
   /\ ev.st.cached = ev.st.word
   /\ ev.st.hit = {}
   /\ ev.st.data = <<>>) =>
     /\ Get(ev.st.got.regs, 31) = ToW(ev.st.at + 8)
     /\ \A i \in 0..30 : Get(ev.st.got.regs, i) = Get(ev.st.before, i)
     /\ pc = RulePc(ev.st.at, ev.st.word)

\* C19: at no time are two emulation_loop threads inside an iteration.
C19_AtMostOneWorkerStepping ==
  Cardinality({w \in 1..Len(workers) : workers[w].loc = "body"}) <= 1

\* C20: whenever is_running is true an emulation_loop thread is alive; a loop
\* that ends because pc reached the end of the image leaves is_running false.
C20_RunningFlagImpliesWorker ==
  is_running => Len(workers) >= 1

\* C21: once every emulation_loop thread has ended after a stop, with nothing
\* else done by the user since, is_running is false, pc is the entry point and
\* the frame counter is 0.
C21_StopResetIsDurable ==
  (ev.stopped /\ workers = <<>>) =>
     (~is_running /\ pc = EntryPoint /\ frame_count = 0)

\* C22: a load_rom that fails after an image has been loaded (the title is no
\* longer the initial one) leaves the program image, the title, pc, the general
\* registers and the vector registers as they were before the call.
C22_RejectedLoadChangesNothing ==
  (ev.op = "load_rom" /\ ev.out # "ok" /\ rom_title # UnknownTitle) =>
     ev.changed \cap {"rom_data", "rom_title", "pc", "cpu_registers", "vu_registers"} = {}

\* C23: no iteration of the step loop changes a vector register other than
\* register 0.
C23_StepsChangeOnlyVectorRegisterZero ==
  IsStep => \A i \in 1..31 : Get(vu_registers, i) = Get(ev.st.vu_before, i)

\* a step whose handler is the one made for an LW word
IsLwStep == IsStep /\ OpOf(ev.st.cached) = OP_LW

C25_PcIsWordAligned == pc % 4 = 0

\* an iteration that jumped and then failed, so that pc was set twice
C25_Witness ==
  /\ ev.op = "step"
  /\ ev.out = "error"
  /\ ev.st.err = "cheat"
  /\ OpOf(ev.st.cached) = OP_JAL
  /\ pc = RulePc(ev.st.at, ev.st.cached) + 4
  /\ save_states # <<>>
====
